---------------------------- MODULE Spec2Model ----------------------------
(***************************************************************************)
(* A model of the statistics aggregator of HyperSerialPico                 *)
(* (src/include/statistics.h): the frame counters of the current period,   *)
(* the snapshot of the last period, the cumulative power sums, and the     *)
(* operations increaseTotal, increaseShow, increaseGood, updatePowerStats, *)
(* update, print, reset and lightReset.                                    *)
(*                                                                         *)
(* Number representation.                                                  *)
(*   uint16_t fields are integers reduced modulo U16 after each increment. *)
(*   uint32_t / uint64_t fields are integers; the inputs of the model keep *)
(*   them far below 2^31, so they never wrap here.                         *)
(*   float / long double percentages are fixed-point integers in units of  *)
(*   1e-6 (One is the literal 1, Epsilon the literal 0.00001); a quotient  *)
(*   of two of them is an exact fraction [num, den], with 0/0 the NaN.     *)
(***************************************************************************)
EXTENDS Integers, Sequences, FiniteSets, TLC

VARIABLES
    startTime,                      \* unsigned long startTime
    goodFrames,                     \* uint16_t goodFrames
    showFrames,                     \* uint16_t showFrames
    totalFrames,                    \* uint16_t totalFrames
    finalGoodFrames,                \* uint16_t finalGoodFrames
    finalShowFrames,                \* uint16_t finalShowFrames
    finalTotalFrames,               \* uint16_t finalTotalFrames
    milliampsSum,                   \* uint64_t milliampsSum
    underpowerDesiredMilliampsSum,  \* uint64_t underpowerDesiredMilliampsSum
    underpowerFramesCount,          \* uint64_t underpowerFramesCount
    framesCount,                    \* uint64_t framesCount
    underpowerPercentSum,           \* long double underpowerPercentSum
    powerPercentSum,                \* long double powerPercentSum
    report,                         \* what the last call, if it was print, computed
    op,                             \* history: the last call and its arguments
    pre,                            \* history: the fields just before the last call
    periodCalls,                    \* history: increaseTotal calls since the last update
    closedCalls,                    \* history: periodCalls of the last closed period that had any
    clearCalls,                     \* history: increaseTotal calls since the counters were last zeroed
    snapCalls,                      \* history: clearCalls at the last update that found any
    powerCalls,                     \* history: updatePowerStats calls since the start or the last reset
    limitedCalls,                   \* history: those of them within the tolerance of 1
    desiredCalls,                   \* history: the desired current of those calls, summed
    desiredLimited,                 \* history: the desired current of the limited ones, summed
    pure,                           \* history: only increase calls were made since the last update
    events,                         \* history: frame and limiter events since the start or the last reset
    longRun,                        \* the limiter's counters at full width, in a long run
    reporter                        \* the reporter task: its scheduling and its place inside update

frameFields == <<goodFrames, showFrames, totalFrames>>

finalFields == <<finalGoodFrames, finalShowFrames, finalTotalFrames>>

powerFields == <<milliampsSum, underpowerDesiredMilliampsSum,
                 underpowerFramesCount, framesCount,
                 underpowerPercentSum, powerPercentSum>>

frameHistory == <<periodCalls, closedCalls, clearCalls, snapCalls>>

powerHistory == <<powerCalls, limitedCalls, desiredCalls, desiredLimited>>

shortRun == <<startTime, frameFields, finalFields, powerFields, report,
              op, pre, pure, events, frameHistory, powerHistory, reporter>>

vars == <<shortRun, longRun>>

----------------------------------------------------------------------------
(* The bounds of the model: the frame and limiter events of one run, and   *)
(* the calls made on top of a long run.                                    *)
MaxEvents == 3

MaxLongRunCalls == 4

(* uint16_t holds the values below 2^16. *)
U16 == 65536

(* The literal 1 of "1 - underpowerPercentage", in units of 1e-6. *)
One == 1000000

(* The literal 0.00001, in units of 1e-6. *)
Epsilon == 10

(* The literal 100 of print. *)
Hundred == 100

(* The timestamps the operations are called with. *)
Times == {0, 1}

(* The values updatePowerStats is called with. *)
PowerPercentages == {One \div 2}

UnderpowerPercentages == {One \div 2, One - Epsilon, One - 5, One}

Milliamps == {0, 1, 1000}

DesiredMilliamps == {1000, 2000}

----------------------------------------------------------------------------
(* Helpers that model C++ expressions. *)

Min(a, b) == IF b < a THEN b ELSE a

Abs(x) == IF x < 0 THEN -x ELSE x

RECURSIVE Gcd(_, _)
Gcd(a, b) == IF b = 0 THEN a ELSE Gcd(b, a % b)

(* (double) num / (double) den as an exact fraction in lowest terms;        *)
(* x/0 with x > 0 is the infinity 1/0 and 0/0 is the NaN 0/0.               *)
FloatDiv(num, den) ==
    LET g == Gcd(num, den)
    IN  IF g = 0 THEN [num |-> 0, den |-> 0]
        ELSE [num |-> num \div g, den |-> den \div g]

IsNaN(x) == x.num = 0 /\ x.den = 0

(* The values a conversion with undefined behaviour may leave. *)
Indeterminate == {0, 1}

(* A mutant of Increment: a counter wider than 16 bits. *)
IncrementWide(x) == x + 1

(* x++ on a uint16_t *)
Increment(x) == (x + 1) % U16

Fields ==
    [startTime |-> startTime,
     goodFrames |-> goodFrames,
     showFrames |-> showFrames,
     totalFrames |-> totalFrames,
     finalGoodFrames |-> finalGoodFrames,
     finalShowFrames |-> finalShowFrames,
     finalTotalFrames |-> finalTotalFrames,
     milliampsSum |-> milliampsSum,
     underpowerDesiredMilliampsSum |-> underpowerDesiredMilliampsSum,
     underpowerFramesCount |-> underpowerFramesCount,
     framesCount |-> framesCount,
     underpowerPercentSum |-> underpowerPercentSum,
     powerPercentSum |-> powerPercentSum]

NoReport == [status |-> "none"]

(* |1 - underpowerPercentage| < 1e-5, as the specification words it. *)
WithinTolerance(underpowerPercentage) ==
    /\ One - underpowerPercentage < Epsilon
    /\ underpowerPercentage - One < Epsilon

(* The history of a call: what was called, whether right after a reset, on  *)
(* which fields, and after how many increaseTotal calls since the counters  *)
(* were last zeroed.                                                        *)
Called(name, args) ==
    /\ op' = [name |-> name, args |-> args, afterReset |-> op.name = "reset",
              pure |-> pure, calls |-> clearCalls]
    /\ pre' = Fields
    /\ pure' = IF name = "update" THEN TRUE
               ELSE IF name \in {"increaseTotal", "increaseShow", "increaseGood"}
                    THEN pure
                    ELSE FALSE
    /\ UNCHANGED <<longRun, reporter>>
    /\ events' = IF name = "reset" THEN 0
                 ELSE IF name \in {"increaseTotal", "increaseShow",
                                   "increaseGood", "updatePowerStats"}
                      THEN events + 1
                      ELSE events

----------------------------------------------------------------------------
(* No long run: the limiter's counters are the integer fields above. *)
NoLongRun == [status |-> "none"]

InitFields ==
    /\ startTime = 0
    /\ goodFrames = 0
    /\ showFrames = 0
    /\ totalFrames = 0
    /\ finalGoodFrames = 0
    /\ finalShowFrames = 0
    /\ finalTotalFrames = 0
    /\ milliampsSum = 0
    /\ underpowerDesiredMilliampsSum = 0
    /\ underpowerFramesCount = 0
    /\ framesCount = 0
    /\ underpowerPercentSum = 0
    /\ powerPercentSum = 0
    /\ report = NoReport
    /\ op = [name |-> "init", args |-> <<>>, afterReset |-> FALSE,
             pure |-> FALSE, calls |-> 0]
    /\ pre = Fields
    /\ pure = FALSE
    /\ events = 0
    /\ periodCalls = 0
    /\ closedCalls = 0
    /\ clearCalls = 0
    /\ snapCalls = 0
    /\ powerCalls = 0
    /\ limitedCalls = 0
    /\ desiredCalls = 0
    /\ desiredLimited = 0

(* Every operation runs as one step: the reporter is never inside one. *)
NoReporter == [pc |-> "idle"]

Init == InitFields /\ longRun = NoLongRun /\ reporter = NoReporter

increaseTotal ==
    /\ totalFrames' = Increment(totalFrames)
    /\ periodCalls' = periodCalls + 1
    /\ clearCalls' = clearCalls + 1
    /\ report' = NoReport
    /\ Called("increaseTotal", <<>>)
    /\ UNCHANGED <<startTime, goodFrames, showFrames, finalFields, powerFields,
                   closedCalls, snapCalls, powerHistory>>

increaseShow ==
    /\ showFrames' = Increment(showFrames)
    /\ report' = NoReport
    /\ Called("increaseShow", <<>>)
    /\ UNCHANGED <<startTime, goodFrames, totalFrames, finalFields, powerFields,
                   frameHistory, powerHistory>>

increaseGood ==
    /\ goodFrames' = Increment(goodFrames)
    /\ report' = NoReport
    /\ Called("increaseGood", <<>>)
    /\ UNCHANGED <<startTime, showFrames, totalFrames, finalFields, powerFields,
                   frameHistory, powerHistory>>

(* A mutant of IsCurrentLimited: the exact comparison the tolerance replaces. *)
IsCurrentLimitedExact(underpowerPercentage) ==
    underpowerPercentage = One

(* std::fabs(1 - underpowerPercentage) < 0.00001 *)
IsCurrentLimited(underpowerPercentage) ==
    Abs(One - underpowerPercentage) < Epsilon

(* A mutant of DesiredAdded: the desired current is added once. *)
DesiredAddedOnce(limited, underpowerDesiredMilliamps) ==
    underpowerDesiredMilliamps

(* What one call adds to underpowerDesiredMilliampsSum: the addition of the *)
(* "if" branch and the unconditional one after it.                          *)
DesiredAdded(limited, underpowerDesiredMilliamps) ==
    (IF limited THEN underpowerDesiredMilliamps ELSE 0)
    + underpowerDesiredMilliamps

updatePowerStats(powerPercentage, underpowerPercentage, milliamps, underpowerDesiredMilliamps) ==
    LET limited == IsCurrentLimited(underpowerPercentage)
    IN  /\ framesCount' = framesCount + 1
        /\ underpowerFramesCount' =
               IF limited THEN underpowerFramesCount + 1 ELSE underpowerFramesCount
        /\ underpowerPercentSum' =
               IF limited THEN underpowerPercentSum + underpowerPercentage
                          ELSE underpowerPercentSum
        /\ powerPercentSum' = powerPercentSum + powerPercentage
        /\ milliampsSum' = milliampsSum + milliamps
        /\ underpowerDesiredMilliampsSum' =
               underpowerDesiredMilliampsSum
               + DesiredAdded(limited, underpowerDesiredMilliamps)
        /\ powerCalls' = powerCalls + 1
        /\ limitedCalls' =
               IF WithinTolerance(underpowerPercentage)
               THEN limitedCalls + 1 ELSE limitedCalls
        /\ desiredCalls' = desiredCalls + underpowerDesiredMilliamps
        /\ desiredLimited' =
               IF WithinTolerance(underpowerPercentage)
               THEN desiredLimited + underpowerDesiredMilliamps
               ELSE desiredLimited
        /\ report' = NoReport
        /\ Called("updatePowerStats",
                  <<powerPercentage, underpowerPercentage,
                    milliamps, underpowerDesiredMilliamps>>)
        /\ UNCHANGED <<startTime, frameFields, finalFields, frameHistory>>

(* Mutants of ClampedGood: no clamp, the larger one, always the total. *)
ClampedGoodUnclamped(good, total) == good

ClampedGoodMax(good, total) == IF good < total THEN total ELSE good

ClampedGoodTotal(good, total) == total

(* std::min(goodFrames, totalFrames) of update *)
ClampedGood(good, total) == Min(good, total)

(* Mutants of PeriodHasFrames: an off-by-one test, and no test at all. *)
PeriodHasFramesAboveOne(total) == total > 1

PeriodHasFramesAlways(total) == TRUE

PeriodHasFramesNever(total) == FALSE

(* if (totalFrames > 0) of update *)
PeriodHasFrames(total) == total > 0

(* A mutant of update: a period restart that also restarts the limiter's    *)
(* current sums.                                                            *)
updateClearsMilliamps(currentTime) ==
    /\ IF PeriodHasFrames(totalFrames)
       THEN /\ finalShowFrames' = showFrames
            /\ finalGoodFrames' = ClampedGood(goodFrames, totalFrames)
            /\ finalTotalFrames' = totalFrames
       ELSE UNCHANGED finalFields
    /\ startTime' = currentTime
    /\ goodFrames' = 0
    /\ totalFrames' = 0
    /\ showFrames' = 0
    /\ milliampsSum' = 0
    /\ underpowerDesiredMilliampsSum' = 0
    /\ closedCalls' = IF periodCalls > 0 THEN periodCalls ELSE closedCalls
    /\ periodCalls' = 0
    /\ snapCalls' = IF clearCalls % U16 > 0 THEN clearCalls % U16 ELSE snapCalls
    /\ clearCalls' = 0
    /\ report' = NoReport
    /\ Called("update", <<currentTime>>)
    /\ UNCHANGED <<underpowerFramesCount, framesCount, underpowerPercentSum,
                   powerPercentSum, powerHistory>>

update(currentTime) ==
    /\ IF PeriodHasFrames(totalFrames)
       THEN /\ finalShowFrames' = showFrames
            /\ finalGoodFrames' = ClampedGood(goodFrames, totalFrames)
            /\ finalTotalFrames' = totalFrames
       ELSE UNCHANGED finalFields
    /\ startTime' = currentTime
    /\ goodFrames' = 0
    /\ totalFrames' = 0
    /\ showFrames' = 0
    /\ closedCalls' = IF periodCalls > 0 THEN periodCalls ELSE closedCalls
    /\ periodCalls' = 0
    /\ snapCalls' = IF clearCalls % U16 > 0 THEN clearCalls % U16 ELSE snapCalls
    /\ clearCalls' = 0
    /\ report' = NoReport
    /\ Called("update", <<currentTime>>)
    /\ UNCHANGED <<powerFields, powerHistory>>

(* (float) ((double) sum / (double) count) * 100 of print, sum in units of 1/One *)
PercentAverage(sum, count) == FloatDiv(sum * Hundred, count * One)

(* A mutant of MilliampsAverage: the quotient rounded to nearest.             *)
MilliampsAverageRounded(sum, count) ==
    IF count = 0 THEN Indeterminate ELSE {(2 * sum + count) \div (2 * count)}

(* (uint32_t) ((double) sum / (double) count) of print: the possible results.  *)
(* Converting a NaN or an infinity to uint32_t is undefined.                   *)
MilliampsAverage(sum, count) ==
    IF count = 0 THEN Indeterminate ELSE {sum \div count}

(* Whether a report line of print divides an integer by zero: line 174 divides *)
(* by framesCount, line 178 by milliampsAverage.                               *)
DividesByZero(count, average) == count = 0 \/ average = 0

print(curTime) ==
    /\ startTime' = curTime
    /\ goodFrames' = 0
    /\ totalFrames' = 0
    /\ showFrames' = 0
    /\ clearCalls' = 0
    /\ \E milliampsAverage \in MilliampsAverage(milliampsSum, framesCount),
          underpowerRequestedMilliampsAverage \in
              MilliampsAverage(underpowerDesiredMilliampsSum, underpowerFramesCount),
          trapped \in BOOLEAN :
          /\ trapped => DividesByZero(framesCount, milliampsAverage)
          /\ report' =
                 IF trapped THEN [status |-> "trap"]
                 ELSE [status |-> "printed",
                       powerPercentAverage |->
                           PercentAverage(powerPercentSum, framesCount),
                       milliampsAverage |-> milliampsAverage,
                       underpowerPercentAverage |->
                           PercentAverage(underpowerPercentSum,
                                          underpowerFramesCount),
                       underpowerRequestedMilliampsAverage |->
                           underpowerRequestedMilliampsAverage,
                       frames |-> finalShowFrames,
                       received |-> finalTotalFrames,
                       good |-> finalGoodFrames,
                       incomplete |-> finalTotalFrames - finalGoodFrames,
                       framesCount |-> framesCount,
                       underpowerFramesCount |-> underpowerFramesCount,
                       undefined |->
                           {n \in {"milliampsAverage"} : framesCount = 0}
                           \cup {n \in {"underpowerRequestedMilliampsAverage"} :
                                     underpowerFramesCount = 0}]
    /\ Called("print", <<curTime>>)
    /\ UNCHANGED <<finalFields, powerFields, periodCalls, closedCalls, snapCalls,
                   powerHistory>>

(* Mutants of reset: one that forgets underpowerFramesCount, and one that  *)
(* forgets the snapshot.                                                   *)
resetKeepsUnderpower(currentTime) ==
    /\ startTime' = currentTime
    /\ finalShowFrames' = 0
    /\ finalGoodFrames' = 0
    /\ finalTotalFrames' = 0
    /\ goodFrames' = 0
    /\ totalFrames' = 0
    /\ showFrames' = 0
    /\ milliampsSum' = 0
    /\ underpowerDesiredMilliampsSum' = 0
    /\ framesCount' = 0
    /\ underpowerPercentSum' = 0
    /\ powerPercentSum' = 0
    /\ periodCalls' = 0
    /\ closedCalls' = 0
    /\ clearCalls' = 0
    /\ snapCalls' = 0
    /\ powerCalls' = 0
    /\ limitedCalls' = 0
    /\ desiredCalls' = 0
    /\ desiredLimited' = 0
    /\ report' = NoReport
    /\ Called("reset", <<currentTime>>)
    /\ UNCHANGED underpowerFramesCount

resetKeepsSnapshot(currentTime) ==
    /\ startTime' = currentTime
    /\ goodFrames' = 0
    /\ totalFrames' = 0
    /\ showFrames' = 0
    /\ milliampsSum' = 0
    /\ underpowerDesiredMilliampsSum' = 0
    /\ underpowerFramesCount' = 0
    /\ framesCount' = 0
    /\ underpowerPercentSum' = 0
    /\ powerPercentSum' = 0
    /\ periodCalls' = 0
    /\ closedCalls' = 0
    /\ clearCalls' = 0
    /\ snapCalls' = 0
    /\ powerCalls' = 0
    /\ limitedCalls' = 0
    /\ desiredCalls' = 0
    /\ desiredLimited' = 0
    /\ report' = NoReport
    /\ Called("reset", <<currentTime>>)
    /\ UNCHANGED finalFields

reset(currentTime) ==
    /\ startTime' = currentTime
    /\ finalShowFrames' = 0
    /\ finalGoodFrames' = 0
    /\ finalTotalFrames' = 0
    /\ goodFrames' = 0
    /\ totalFrames' = 0
    /\ showFrames' = 0
    /\ milliampsSum' = 0
    /\ underpowerDesiredMilliampsSum' = 0
    /\ underpowerFramesCount' = 0
    /\ framesCount' = 0
    /\ underpowerPercentSum' = 0
    /\ powerPercentSum' = 0
    /\ periodCalls' = 0
    /\ closedCalls' = 0
    /\ clearCalls' = 0
    /\ snapCalls' = 0
    /\ powerCalls' = 0
    /\ limitedCalls' = 0
    /\ desiredCalls' = 0
    /\ desiredLimited' = 0
    /\ report' = NoReport
    /\ Called("reset", <<currentTime>>)

(* Mutants of lightReset: one that also zeroes the limiter's frame counts,  *)
(* and one that restarts the period whether or not there was data.          *)
lightResetClearsCounts(curTime, hasData) ==
    /\ startTime' = IF hasData THEN curTime ELSE startTime
    /\ goodFrames' = 0
    /\ totalFrames' = 0
    /\ showFrames' = 0
    /\ framesCount' = 0
    /\ underpowerFramesCount' = 0
    /\ clearCalls' = 0
    /\ report' = NoReport
    /\ Called("lightReset", <<curTime, hasData>>)
    /\ UNCHANGED <<finalFields, milliampsSum, underpowerDesiredMilliampsSum,
                   underpowerPercentSum, powerPercentSum,
                   periodCalls, closedCalls, snapCalls, powerHistory>>

lightResetAlways(curTime, hasData) ==
    /\ startTime' = curTime
    /\ goodFrames' = 0
    /\ totalFrames' = 0
    /\ showFrames' = 0
    /\ clearCalls' = 0
    /\ report' = NoReport
    /\ Called("lightReset", <<curTime, hasData>>)
    /\ UNCHANGED <<finalFields, powerFields, periodCalls, closedCalls, snapCalls,
                   powerHistory>>

lightReset(curTime, hasData) ==
    /\ startTime' = IF hasData THEN curTime ELSE startTime
    /\ goodFrames' = 0
    /\ totalFrames' = 0
    /\ showFrames' = 0
    /\ clearCalls' = 0
    /\ report' = NoReport
    /\ Called("lightReset", <<curTime, hasData>>)
    /\ UNCHANGED <<finalFields, powerFields, periodCalls, closedCalls, snapCalls,
                   powerHistory>>

----------------------------------------------------------------------------
(* The cumulative sums at their full width, for runs too long for the      *)
(* integers above.  A wide number is a natural number as the sequence of   *)
(* its base-Limb digits, lowest first, without a leading zero digit: <<>>  *)
(* is 0.  A double is [mant, exp], the number mant * 2^exp with mant a     *)
(* wide number of at most 53 bits (or 2^53).                               *)

Limb == 2^15

RECURSIVE BitLen(_)
BitLen(n) == IF n = 0 THEN 0 ELSE 1 + BitLen(n \div 2)

LimbBits == BitLen(Limb) - 1

RECURSIVE WNorm(_)
WNorm(w) ==
    IF Len(w) > 0 /\ w[Len(w)] = 0 THEN WNorm(SubSeq(w, 1, Len(w) - 1)) ELSE w

RECURSIVE WFromInt(_)
WFromInt(n) == IF n = 0 THEN <<>> ELSE <<n % Limb>> \o WFromInt(n \div Limb)

WLimb(w, i) == IF i <= Len(w) THEN w[i] ELSE 0

RECURSIVE WAddCarry(_, _, _, _)
WAddCarry(a, b, i, carry) ==
    IF i > Len(a) /\ i > Len(b)
    THEN IF carry = 0 THEN <<>> ELSE <<carry>>
    ELSE LET t == WLimb(a, i) + WLimb(b, i) + carry
         IN  <<t % Limb>> \o WAddCarry(a, b, i + 1, t \div Limb)

WAdd(a, b) == WAddCarry(a, b, 1, 0)

RECURSIVE WLessFrom(_, _, _)
WLessFrom(a, b, i) ==
    IF i = 0 THEN FALSE
    ELSE IF a[i] # b[i] THEN a[i] < b[i] ELSE WLessFrom(a, b, i - 1)

WLess(a, b) ==
    IF Len(a) # Len(b) THEN Len(a) < Len(b) ELSE WLessFrom(a, b, Len(a))

RECURSIVE WSubBorrow(_, _, _, _)
WSubBorrow(a, b, i, borrow) ==
    IF i > Len(a) THEN <<>>
    ELSE LET t == a[i] - WLimb(b, i) - borrow
         IN  IF t < 0 THEN <<t + Limb>> \o WSubBorrow(a, b, i + 1, 1)
                      ELSE <<t>> \o WSubBorrow(a, b, i + 1, 0)

(* a - b, for a >= b *)
WSub(a, b) == WNorm(WSubBorrow(a, b, 1, 0))

(* a * d for a digit d *)
RECURSIVE WMulCarry(_, _, _, _)
WMulCarry(a, d, i, carry) ==
    IF i > Len(a)
    THEN IF carry = 0 THEN <<>> ELSE <<carry>>
    ELSE LET t == a[i] * d + carry
         IN  <<t % Limb>> \o WMulCarry(a, d, i + 1, t \div Limb)

WMulSmall(a, d) == WNorm(WMulCarry(a, d, 1, 0))

(* a * Limb^n *)
WShiftLimbs(a, n) ==
    IF a = <<>> THEN <<>> ELSE [i \in 1 .. n |-> 0] \o a

RECURSIVE WMulFrom(_, _, _)
WMulFrom(a, b, j) ==
    IF j > Len(b) THEN <<>>
    ELSE WAdd(WMulSmall(a, b[j]), WShiftLimbs(WMulFrom(a, b, j + 1), 1))

WMul(a, b) == WMulFrom(a, b, 1)

(* The largest digit d in lo .. hi with d * b <= r, where lo * b <= r. *)
RECURSIVE WDigit(_, _, _, _)
WDigit(r, b, lo, hi) ==
    IF lo = hi THEN lo
    ELSE LET mid == (lo + hi + 1) \div 2
         IN  IF WLess(r, WMulSmall(b, mid))
             THEN WDigit(r, b, lo, mid - 1)
             ELSE WDigit(r, b, mid, hi)

(* The quotient q and the remainder r of the digits i and above of a by    *)
(* b > 0, by long division.                                                 *)
RECURSIVE WDivFrom(_, _, _)
WDivFrom(a, b, i) ==
    IF i > Len(a) THEN [q |-> <<>>, r |-> <<>>]
    ELSE LET h == WDivFrom(a, b, i + 1)
             r2 == WNorm(<<a[i]>> \o h.r)
             d == WDigit(r2, b, 0, Limb - 1)
         IN  [q |-> WNorm(<<d>> \o h.q), r |-> WSub(r2, WMulSmall(b, d))]

WDivMod(a, b) == WDivFrom(a, b, 1)

WBitLen(a) ==
    IF a = <<>> THEN 0 ELSE LimbBits * (Len(a) - 1) + BitLen(a[Len(a)])

(* a * 2^k *)
WShl(a, k) == WShiftLimbs(WMulSmall(a, 2^(k % LimbBits)), k \div LimbBits)

(* a \div 2^k *)
WShr(a, k) ==
    IF k \div LimbBits >= Len(a) THEN <<>>
    ELSE WDivMod(SubSeq(a, 1 + k \div LimbBits, Len(a)),
                 <<2^(k % LimbBits)>>).q

WIsOdd(a) == Len(a) > 0 /\ a[1] % 2 = 1

(* A wide number reduced to the 64 bits of a uint64_t. *)
U64(w) ==
    IF Len(w) < 5 THEN w
    ELSE WNorm(SubSeq(w, 1, 4) \o <<w[5] % 2^(64 - 4 * LimbBits)>>)

(* The significand of a double has 53 bits. *)
MantissaBits == 53

(* q, with sticky telling that a non-zero fraction below q was dropped,    *)
(* rounded to the nearest double, ties to the even significand.            *)
RoundToDouble(q, sticky) ==
    LET d == WBitLen(q) - MantissaBits
    IN  IF d <= 0 THEN [mant |-> q, exp |-> 0]
        ELSE LET kept == WShr(q, d)
                 low == WSub(q, WShl(kept, d))
                 half == WShl(<<1>>, d - 1)
                 up == \/ WLess(half, low)
                       \/ low = half /\ (sticky \/ WIsOdd(kept))
             IN  [mant |-> IF up THEN WAdd(kept, <<1>>) ELSE kept, exp |-> d]

(* (double) of a uint64_t *)
ToDouble(w) == RoundToDouble(w, FALSE)

(* x / y of two doubles, y > 0: the quotient of the significands, taken    *)
(* with two bits more than a double holds, then rounded.                   *)
DoubleDiv(x, y) ==
    LET need == WBitLen(y.mant) + MantissaBits + 2 - WBitLen(x.mant)
        s == IF need > 0 THEN need ELSE 0
        dm == WDivMod(WShl(x.mant, s), y.mant)
        r == RoundToDouble(dm.q, dm.r # <<>>)
    IN  [mant |-> r.mant, exp |-> r.exp + x.exp - y.exp - s]

(* The integer part of a double. *)
Truncated(x) ==
    IF x.exp >= 0 THEN WShl(x.mant, x.exp) ELSE WShr(x.mant, -x.exp)

(* (uint32_t) ((double) sum / (double) count) of print on wide numbers: the *)
(* possible results.                                                        *)
WideMilliampsAverage(sum, count) ==
    IF count = <<>> THEN {WFromInt(i) : i \in Indeterminate}
    ELSE LET t == Truncated(DoubleDiv(ToDouble(sum), ToDouble(count)))
         IN  IF WBitLen(t) > 32 THEN {WFromInt(i) : i \in Indeterminate}
             ELSE {t}

(* Long runs: updatePowerStats called again and again with one milliamps   *)
(* value.  After n such calls from the zero state framesCount is n and     *)
(* milliampsSum is n * milliamps modulo 2^64.                              *)
LongRunCalls == {0, 1, 2^23}

LongRunMilliamps == {0, 1, 1000, 2^16 - 1, 2^30 - 1}

InitLongRun ==
    /\ InitFields
    /\ reporter = NoReporter
    /\ \E n \in LongRunCalls, milliamps \in LongRunMilliamps :
          longRun = [status |-> "none",
                     milliamps |-> milliamps,
                     more |-> 0,
                     framesCount |-> WFromInt(n),
                     milliampsSum |-> U64(WMul(WFromInt(n), WFromInt(milliamps))),
                     milliampsAverage |-> <<>>]

(* framesCount++ and milliampsSum += milliamps of updatePowerStats *)
LongRunUpdatePowerStats ==
    /\ longRun.more < MaxLongRunCalls
    /\ longRun' = [longRun EXCEPT
                       !.status = "none",
                       !.more = @ + 1,
                       !.framesCount = U64(WAdd(@, <<1>>)),
                       !.milliampsSum = U64(WAdd(@, WFromInt(longRun.milliamps))),
                       !.milliampsAverage = <<>>]
    /\ UNCHANGED shortRun

(* milliampsAverage of print *)
LongRunPrint ==
    /\ \E milliampsAverage \in
              WideMilliampsAverage(longRun.milliampsSum, longRun.framesCount) :
          longRun' = [longRun EXCEPT
                          !.status = "printed",
                          !.milliampsAverage = milliampsAverage]
    /\ UNCHANGED shortRun

NextLongRun == LongRunUpdatePowerStats \/ LongRunPrint

SpecAverage == InitLongRun /\ [][NextLongRun]_vars

----------------------------------------------------------------------------
(* The program runs until a report line traps. *)
Running == report.status # "trap"

(* The frame and limiter events of a run are bounded. *)
MoreEvents == Running /\ events < MaxEvents

Next ==
    \/ MoreEvents /\ increaseTotal
    \/ MoreEvents /\ increaseShow
    \/ MoreEvents /\ increaseGood
    \/ MoreEvents /\
          \E powerPercentage \in PowerPercentages,
             underpowerPercentage \in UnderpowerPercentages,
             milliamps \in Milliamps,
             underpowerDesiredMilliamps \in DesiredMilliamps :
             updatePowerStats(powerPercentage, underpowerPercentage,
                              milliamps, underpowerDesiredMilliamps)
    \/ Running /\ \E t \in Times : update(t)
    \/ Running /\ \E t \in Times : print(t)
    \/ Running /\ \E t \in Times : reset(t)
    \/ Running /\ \E t \in Times, hasData \in BOOLEAN : lightReset(t, hasData)

Spec == Init /\ [][Next]_vars

----------------------------------------------------------------------------
(* Long periods: the 16-bit counters near their wrap.  The state after a    *)
(* first period of s frames closed by update(0), followed by k frames of    *)
(* the current period, each counted by increaseTotal, increaseGood and      *)
(* increaseShow.                                                            *)
FirstPeriodFrames == {0, 1}

PeriodFrames == {0, U16 - 2, U16 - 1}

InitWrap ==
    \E s \in FirstPeriodFrames, k \in PeriodFrames :
        /\ startTime = 0
        /\ goodFrames = k
        /\ showFrames = k
        /\ totalFrames = k
        /\ finalGoodFrames = s
        /\ finalShowFrames = s
        /\ finalTotalFrames = s
        /\ milliampsSum = 0
        /\ underpowerDesiredMilliampsSum = 0
        /\ underpowerFramesCount = 0
        /\ framesCount = 0
        /\ underpowerPercentSum = 0
        /\ powerPercentSum = 0
        /\ report = NoReport
        /\ op = [name |-> "init", args |-> <<>>, afterReset |-> FALSE,
                 pure |-> FALSE, calls |-> 0]
        /\ pre = Fields
        /\ pure = TRUE
        /\ events = 0
        /\ periodCalls = k
        /\ closedCalls = s
        /\ clearCalls = k
        /\ snapCalls = s
        /\ powerCalls = 0
        /\ limitedCalls = 0
        /\ desiredCalls = 0
        /\ desiredLimited = 0
        /\ longRun = NoLongRun
        /\ reporter = NoReporter

NextWrap ==
    \/ MoreEvents /\ increaseTotal
    \/ MoreEvents /\ increaseShow
    \/ MoreEvents /\ increaseGood
    \/ Running /\ \E t \in Times : update(t)

SpecWrap == InitWrap /\ [][NextWrap]_vars

----------------------------------------------------------------------------
(* Two tasks: the frame pipeline calls increaseTotal, increaseGood and      *)
(* increaseShow, the reporter calls update.  The class takes no lock.  When *)
(* the caller's scheduling makes each operation atomic, the pipeline runs   *)
(* only while the reporter is outside update; otherwise a call of the       *)
(* pipeline may run between any two statements of update.  reporter.pc is   *)
(* the line of update the reporter executes next.                           *)
IdleReporter(atomic) ==
    [atomic |-> atomic, pc |-> "idle", currentTime |-> 0, calls |-> 0,
     pure |-> FALSE, pre |-> [totalFrames |-> 0]]

InitInterleaved ==
    /\ InitFields
    /\ longRun = NoLongRun
    /\ \E atomic \in BOOLEAN : reporter = IdleReporter(atomic)

(* Whether a call of the frame pipeline may run now. *)
FramePipelineMayRun == reporter.atomic => reporter.pc = "idle"

(* The call and "if (totalFrames > 0)" *)
updateEnter(currentTime) ==
    /\ reporter.pc = "idle"
    /\ reporter' = [reporter EXCEPT
                        !.pc = IF PeriodHasFrames(totalFrames) THEN "131" ELSE "136",
                        !.currentTime = currentTime,
                        !.pure = pure,
                        !.pre = Fields]
    /\ UNCHANGED <<startTime, frameFields, finalFields, powerFields, report,
                   op, pre, pure, events, frameHistory, powerHistory, longRun>>

(* finalShowFrames = showFrames; *)
updateSaveShow ==
    /\ reporter.pc = "131"
    /\ finalShowFrames' = showFrames
    /\ reporter' = [reporter EXCEPT !.pc = "132"]
    /\ UNCHANGED <<startTime, frameFields, finalGoodFrames, finalTotalFrames,
                   powerFields, report, op, pre, pure, events, frameHistory,
                   powerHistory, longRun>>

(* finalGoodFrames = std::min(goodFrames, totalFrames); *)
updateSaveGood ==
    /\ reporter.pc = "132"
    /\ finalGoodFrames' = ClampedGood(goodFrames, totalFrames)
    /\ reporter' = [reporter EXCEPT !.pc = "133"]
    /\ UNCHANGED <<startTime, frameFields, finalShowFrames, finalTotalFrames,
                   powerFields, report, op, pre, pure, events, frameHistory,
                   powerHistory, longRun>>

(* finalTotalFrames = totalFrames; *)
updateSaveTotal ==
    /\ reporter.pc = "133"
    /\ finalTotalFrames' = totalFrames
    /\ snapCalls' = clearCalls % U16
    /\ reporter' = [reporter EXCEPT !.pc = "136"]
    /\ UNCHANGED <<startTime, frameFields, finalShowFrames, finalGoodFrames,
                   powerFields, report, op, pre, pure, events, periodCalls,
                   closedCalls, clearCalls, powerHistory, longRun>>

(* startTime = currentTime; *)
updateSetStart ==
    /\ reporter.pc = "136"
    /\ startTime' = reporter.currentTime
    /\ reporter' = [reporter EXCEPT !.pc = "137"]
    /\ UNCHANGED <<frameFields, finalFields, powerFields, report, op, pre,
                   pure, events, frameHistory, powerHistory, longRun>>

(* goodFrames = 0; *)
updateZeroGood ==
    /\ reporter.pc = "137"
    /\ goodFrames' = 0
    /\ reporter' = [reporter EXCEPT !.pc = "138"]
    /\ UNCHANGED <<startTime, showFrames, totalFrames, finalFields, powerFields,
                   report, op, pre, pure, events, frameHistory, powerHistory,
                   longRun>>

(* totalFrames = 0; the increaseTotal calls counted so far end here. *)
updateZeroTotal ==
    /\ reporter.pc = "138"
    /\ totalFrames' = 0
    /\ closedCalls' = IF periodCalls > 0 THEN periodCalls ELSE closedCalls
    /\ periodCalls' = 0
    /\ clearCalls' = 0
    /\ reporter' = [reporter EXCEPT !.pc = "139", !.calls = clearCalls]
    /\ UNCHANGED <<startTime, goodFrames, showFrames, finalFields, powerFields,
                   report, op, pre, pure, events, snapCalls, powerHistory,
                   longRun>>

(* showFrames = 0; and the return *)
updateZeroShow ==
    /\ reporter.pc = "139"
    /\ showFrames' = 0
    /\ op' = [name |-> "update", args |-> <<reporter.currentTime>>,
              afterReset |-> FALSE, pure |-> reporter.pure,
              calls |-> reporter.calls]
    /\ pre' = reporter.pre
    /\ pure' = TRUE
    /\ report' = NoReport
    /\ reporter' = IdleReporter(reporter.atomic)
    /\ UNCHANGED <<startTime, goodFrames, totalFrames, finalFields, powerFields,
                   events, frameHistory, powerHistory, longRun>>

NextInterleaved ==
    \/ MoreEvents /\ FramePipelineMayRun /\ increaseTotal
    \/ MoreEvents /\ FramePipelineMayRun /\ increaseShow
    \/ MoreEvents /\ FramePipelineMayRun /\ increaseGood
    \/ \E t \in Times : updateEnter(t)
    \/ updateSaveShow
    \/ updateSaveGood
    \/ updateSaveTotal
    \/ updateSetStart
    \/ updateZeroGood
    \/ updateZeroTotal
    \/ updateZeroShow

SpecInterleaved == InitInterleaved /\ [][NextInterleaved]_vars


----------------------------------------------------------------------------
(* The claims. A claim about what a call does is stated of the state right  *)
(* after the call: op names the call and pre holds the fields before it.    *)

(* C1: in every reachable state finalGoodFrames <= finalTotalFrames, so the *)
(* "incompl." figure finalTotalFrames - finalGoodFrames that print computes *)
(* is never negative.                                                       *)
C1_SnapshotGoodAtMostTotal ==
    /\ finalGoodFrames <= finalTotalFrames
    /\ report.status = "printed" => report.incomplete >= 0

(* C1's case: update has snapshotted a period whose good count exceeded its *)
(* total count.                                                             *)
C1_Witness ==
    /\ op.name = "update"
    /\ pre.totalFrames >= 1
    /\ pre.goodFrames > pre.totalFrames
    /\ finalGoodFrames = finalTotalFrames

(* C2, as claimed: after every update that closes a period of increase      *)
(* calls, also one without any increaseTotal call, finalGoodFrames is       *)
(* min(goodFrames, totalFrames) and finalTotalFrames is totalFrames, both   *)
(* taken just before the update.                                            *)
C2_Original ==
    (op.name = "update" /\ op.pure) =>
        /\ finalGoodFrames = Min(pre.goodFrames, pre.totalFrames)
        /\ finalTotalFrames = pre.totalFrames

(* C2, amended: the snapshot is min(goodFrames, totalFrames) and            *)
(* totalFrames when totalFrames was at least 1 just before the update; when *)
(* it was 0 the snapshot keeps the values it had.                           *)
C2_Amended ==
    op.name = "update" =>
        IF pre.totalFrames >= 1
        THEN /\ finalGoodFrames = Min(pre.goodFrames, pre.totalFrames)
             /\ finalTotalFrames = pre.totalFrames
        ELSE /\ finalGoodFrames = pre.finalGoodFrames
             /\ finalTotalFrames = pre.finalTotalFrames

(* C2's case: a second update closes a period of increase calls with fewer  *)
(* good frames than total frames, over an earlier snapshot.                 *)
C2_Witness ==
    /\ op.name = "update"
    /\ op.pure
    /\ pre.totalFrames = 1
    /\ pre.goodFrames = 0
    /\ pre.finalGoodFrames = 1
    /\ finalGoodFrames = 0

(* C3: print right after reset, with no frame processed, does not divide by *)
(* zero or trap, and its four averages have defined values, none a NaN.     *)
C3_ResetThenPrintDefined ==
    (op.name = "print" /\ op.afterReset) =>
        /\ report.status = "printed"
        /\ report.undefined = {}
        /\ ~IsNaN(report.powerPercentAverage)
        /\ ~IsNaN(report.underpowerPercentAverage)

(* C4: after the single call updatePowerStats(0.5, 1.0, 1000, 2000) from    *)
(* the zero state, print reports framesCount 1, underpowerFramesCount 1,    *)
(* milliampsAverage 1000, underpowerRequestedMilliampsAverage 2000,         *)
(* powerPercentAverage 50 and underpowerPercentAverage 100.                 *)
C4_Scenario ==
    ( /\ op.name = "print"
      /\ powerCalls = 1
      /\ desiredCalls = 2000
      /\ pre.powerPercentSum = One \div 2
      /\ pre.underpowerPercentSum = One
      /\ pre.milliampsSum = 1000 ) =>
        /\ report.status = "printed"
        /\ report.framesCount = 1
        /\ report.underpowerFramesCount = 1
        /\ report.milliampsAverage = 1000
        /\ report.underpowerRequestedMilliampsAverage = 2000
        /\ report.powerPercentAverage = [num |-> 50, den |-> 1]
        /\ report.underpowerPercentAverage = [num |-> 100, den |-> 1]

(* C5, as claimed: finalTotalFrames is the number of increaseTotal calls of *)
(* the most recent period, closed by update, that had any, and 0 when there *)
(* is none.                                                                 *)
C5_Original == finalTotalFrames = closedCalls

(* C5, amended: finalTotalFrames is the number, modulo 65536, of the        *)
(* increaseTotal calls made since the counters were last zeroed (by update, *)
(* print or lightReset), taken at the most recent update that found that    *)
(* number non-zero, and 0 when there is none.                               *)
C5_Amended == finalTotalFrames = snapCalls

(* C5's case: update closes a period whose first increaseTotal call was     *)
(* zeroed by print or lightReset before the second one.                     *)
C5_Witness ==
    /\ op.name = "update"
    /\ closedCalls = 2
    /\ finalTotalFrames = 1

(* C6: update called while totalFrames is 0 leaves finalGoodFrames,         *)
(* finalShowFrames and finalTotalFrames as they were, whatever goodFrames   *)
(* and showFrames are.                                                      *)
C6_EmptyPeriodKeepsSnapshot ==
    (op.name = "update" /\ pre.totalFrames = 0) =>
        /\ finalGoodFrames = pre.finalGoodFrames
        /\ finalShowFrames = pre.finalShowFrames
        /\ finalTotalFrames = pre.finalTotalFrames

(* C6's case: update over a period with good or shown frames but no total   *)
(* frame, after a period with data.                                         *)
C6_Witness ==
    /\ op.name = "update"
    /\ pre.totalFrames = 0
    /\ pre.goodFrames + pre.showFrames > 0
    /\ pre.finalTotalFrames > 0
    /\ finalTotalFrames > 0

(* C7: update(t) called while totalFrames >= 1 sets finalShowFrames to      *)
(* showFrames, finalTotalFrames to totalFrames and finalGoodFrames to       *)
(* min(goodFrames, totalFrames); and every update(t) leaves startTime = t   *)
(* and goodFrames = showFrames = totalFrames = 0.                           *)
C7_UpdateEffect ==
    op.name = "update" =>
        /\ startTime = op.args[1]
        /\ goodFrames = 0
        /\ showFrames = 0
        /\ totalFrames = 0
        /\ pre.totalFrames >= 1 =>
               /\ finalShowFrames = pre.showFrames
               /\ finalTotalFrames = pre.totalFrames
               /\ finalGoodFrames = Min(pre.goodFrames, pre.totalFrames)

(* C7's case: one increaseTotal and two increaseGood calls, then update at  *)
(* a new timestamp, which clamps finalGoodFrames to 1.                      *)
C7_Witness ==
    /\ op.name = "update"
    /\ pre.totalFrames = 1
    /\ pre.goodFrames = 2
    /\ finalGoodFrames = 1
    /\ startTime # pre.startTime

(* C8: with no reset in between, framesCount is the number of               *)
(* updatePowerStats calls and underpowerFramesCount the number of those     *)
(* with |1 - underpowerPercentage| < 1e-5.                                  *)
C8_CountsPowerCalls ==
    /\ framesCount = powerCalls
    /\ underpowerFramesCount = limitedCalls

(* C8's case: two calls, the last one within the tolerance without being 1, *)
(* the other one outside it.                                                *)
C8_Witness ==
    /\ op.name = "updatePowerStats"
    /\ op.args[2] = One - 5
    /\ powerCalls = 2
    /\ limitedCalls = 1

(* C9: one updatePowerStats call with desired current d adds 2*d to         *)
(* underpowerDesiredMilliampsSum when the frame is current-limited and d    *)
(* otherwise; so the underpowerRequestedMilliampsAverage of print divides,  *)
(* by underpowerFramesCount, the desired current of every frame plus that   *)
(* of the limited ones.                                                     *)
C9_DesiredCountedTwice ==
    /\ op.name = "updatePowerStats" =>
           underpowerDesiredMilliampsSum =
               pre.underpowerDesiredMilliampsSum
               + (IF WithinTolerance(op.args[2])
                  THEN 2 * op.args[4] ELSE op.args[4])
    /\ (report.status = "printed" /\ underpowerFramesCount > 0) =>
           report.underpowerRequestedMilliampsAverage =
               (desiredCalls + desiredLimited) \div underpowerFramesCount

(* C9's case: print after one limited and one non-limited frame reports an  *)
(* average above twice the desired current of the limited frame.            *)
C9_Witness ==
    /\ report.status = "printed"
    /\ framesCount = 2
    /\ underpowerFramesCount = 1
    /\ desiredCalls > desiredLimited
    /\ report.underpowerRequestedMilliampsAverage > 2 * desiredLimited

(* C10: after N >= 1 updatePowerStats calls from the zero state that all    *)
(* pass milliamps = m, the milliampsAverage of print is exactly m.          *)
C10_AverageIsExact ==
    (longRun.status = "printed" /\ longRun.framesCount # <<>>) =>
        longRun.milliampsAverage = WFromInt(longRun.milliamps)

(* C11: in every reachable state, whatever operations led to it,            *)
(* framesCount >= underpowerFramesCount.                                    *)
C11_FramesCountAtLeastUnderpower == framesCount >= underpowerFramesCount

(* C11's case: the first limiter frame after a reset is a limited one, so   *)
(* the two counts are equal.                                                *)
C11_Witness ==
    /\ op.name = "updatePowerStats"
    /\ op.afterReset
    /\ framesCount = 1
    /\ underpowerFramesCount = 1

(* C12: a call that is not reset decreases none of the six cumulative power *)
(* fields.                                                                  *)
C12_SumsNeverDecrease ==
    op.name \notin {"init", "reset"} =>
        /\ milliampsSum >= pre.milliampsSum
        /\ underpowerDesiredMilliampsSum >= pre.underpowerDesiredMilliampsSum
        /\ underpowerFramesCount >= pre.underpowerFramesCount
        /\ framesCount >= pre.framesCount
        /\ underpowerPercentSum >= pre.underpowerPercentSum
        /\ powerPercentSum >= pre.powerPercentSum

(* C12's case: a limited frame has been added to sums that were not zero.   *)
C12_Witness ==
    /\ op.name = "updatePowerStats"
    /\ pre.framesCount >= 1
    /\ pre.milliampsSum >= 1
    /\ milliampsSum > pre.milliampsSum
    /\ underpowerFramesCount > pre.underpowerFramesCount
    /\ underpowerPercentSum > pre.underpowerPercentSum

(* C13: update leaves the six cumulative power fields as they were.         *)
C13_UpdateKeepsPowerFields ==
    op.name = "update" =>
        /\ milliampsSum = pre.milliampsSum
        /\ underpowerDesiredMilliampsSum = pre.underpowerDesiredMilliampsSum
        /\ underpowerFramesCount = pre.underpowerFramesCount
        /\ framesCount = pre.framesCount
        /\ underpowerPercentSum = pre.underpowerPercentSum
        /\ powerPercentSum = pre.powerPercentSum

(* C13's case: update has closed a period with frames while the power sums  *)
(* were not zero.                                                           *)
C13_Witness ==
    /\ op.name = "update"
    /\ pre.totalFrames >= 1
    /\ finalTotalFrames >= 1
    /\ framesCount >= 1
    /\ milliampsSum >= 1
    /\ underpowerFramesCount >= 1

(* C14: lightReset(t, hasData) zeroes goodFrames, showFrames and            *)
(* totalFrames, leaves the snapshot and the six power fields as they were,  *)
(* and sets startTime to t when hasData and leaves it otherwise.            *)
C14_LightResetEffect ==
    op.name = "lightReset" =>
        /\ goodFrames = 0 /\ showFrames = 0 /\ totalFrames = 0
        /\ finalGoodFrames = pre.finalGoodFrames
        /\ finalShowFrames = pre.finalShowFrames
        /\ finalTotalFrames = pre.finalTotalFrames
        /\ milliampsSum = pre.milliampsSum
        /\ underpowerDesiredMilliampsSum = pre.underpowerDesiredMilliampsSum
        /\ underpowerFramesCount = pre.underpowerFramesCount
        /\ framesCount = pre.framesCount
        /\ underpowerPercentSum = pre.underpowerPercentSum
        /\ powerPercentSum = pre.powerPercentSum
        /\ startTime = IF op.args[2] THEN op.args[1] ELSE pre.startTime

(* C14's case: lightReset(0, FALSE) after partial counts, with startTime 1  *)
(* and power sums that are not zero.                                        *)
C14_Witness ==
    /\ op.name = "lightReset"
    /\ op.args = <<0, FALSE>>
    /\ pre.startTime = 1
    /\ startTime = 1
    /\ pre.totalFrames >= 1
    /\ framesCount >= 1

C16_ResetEffect ==
    op.name = "reset" =>
        /\ startTime = op.args[1]
        /\ goodFrames = 0 /\ showFrames = 0 /\ totalFrames = 0
        /\ finalGoodFrames = 0 /\ finalShowFrames = 0 /\ finalTotalFrames = 0
        /\ milliampsSum = 0
        /\ underpowerDesiredMilliampsSum = 0
        /\ underpowerFramesCount = 0
        /\ framesCount = 0
        /\ underpowerPercentSum = 0
        /\ powerPercentSum = 0

(* C16's case: reset(0) in a state with a snapshot, power sums and a        *)
(* startTime that are not zero.                                             *)
C16_Witness ==
    /\ op.name = "reset"
    /\ op.args = <<0>>
    /\ pre.startTime = 1
    /\ pre.finalTotalFrames >= 1
    /\ pre.framesCount >= 1
    /\ pre.underpowerDesiredMilliampsSum >= 1
    /\ startTime = 0

(* C19: the divisors of print's two integer divisions, framesCount and      *)
(* milliampsAverage, are both non-zero exactly when framesCount >= 1 and    *)
(* milliampsSum >= framesCount.                                             *)
C19_DivisorsNonZero ==
    op.name = "print" =>
        IF pre.framesCount >= 1 /\ pre.milliampsSum >= pre.framesCount
        THEN /\ report.status = "printed"
             /\ report.framesCount # 0
             /\ report.milliampsAverage # 0
        ELSE \/ report.status = "trap"
             \/ report.framesCount = 0
             \/ report.milliampsAverage = 0

(* C19's case: frames were processed, yet milliampsAverage truncates to 0   *)
(* because milliampsSum < framesCount.                                      *)
C19_Witness ==
    /\ op.name = "print"
    /\ pre.framesCount = 2
    /\ pre.milliampsSum = 1
    /\ report.status = "printed"
    /\ report.framesCount = 2
    /\ report.milliampsAverage = 0

(* C18: the period counters are 16-bit and each increase adds one modulo   *)
(* 65536: with k < 65536 increaseTotal calls in a period totalFrames is k,  *)
(* after exactly 65536 it is 0 again, and an update that follows them then  *)
(* leaves the snapshot as it was.                                           *)
C18_CountersWrap ==
    /\ clearCalls < U16 => totalFrames = clearCalls
    /\ clearCalls = U16 => totalFrames = 0
    /\ op.name = "increaseTotal" => totalFrames = (pre.totalFrames + 1) % U16
    /\ op.name = "increaseGood" => goodFrames = (pre.goodFrames + 1) % U16
    /\ op.name = "increaseShow" => showFrames = (pre.showFrames + 1) % U16
    /\ (op.name = "update" /\ op.calls = U16) =>
           /\ finalGoodFrames = pre.finalGoodFrames
           /\ finalShowFrames = pre.finalShowFrames
           /\ finalTotalFrames = pre.finalTotalFrames

(* C18's case: update after exactly 65536 increaseTotal calls in a period   *)
(* that followed a period of one frame.                                     *)
C18_Witness ==
    /\ op.name = "update"
    /\ op.calls = U16
    /\ pre.totalFrames = 0
    /\ pre.goodFrames = U16 - 1
    /\ pre.finalTotalFrames = 1
    /\ finalTotalFrames = 1

(* C17: when every operation is atomic, no increment is lost: each          *)
(* increaseTotal call made before update zeroes totalFrames is in the       *)
(* snapshot that update leaves, and each call made since is in              *)
(* totalFrames.  When the frame pipeline may run between the statements of  *)
(* update, a lost increment is reachable (C17_Witness).                     *)
C17_AtomicLosesNoIncrement ==
    reporter.atomic =>
        /\ totalFrames = clearCalls
        /\ (op.name = "update" /\ op.calls >= 1) => finalTotalFrames = op.calls

(* C17's case: without atomicity, update found one frame and saved it, a    *)
(* second increaseTotal ran after the snapshot assignment and before        *)
(* "totalFrames = 0", and after update it is counted neither in the         *)
(* snapshot nor in the new period.                                          *)
C17_Witness ==
    /\ ~reporter.atomic
    /\ reporter.pc = "idle"
    /\ op.name = "update"
    /\ pre.totalFrames = 1
    /\ op.calls = 2
    /\ finalTotalFrames = 1
    /\ totalFrames = 0
    /\ clearCalls = 0

============================================================================
